---- MODULE Spec2Model ----
(***************************************************************************)
(* A model of superbol/sn.py: the SN class, its three top-level light      *)
(* curve methods (lbol_direct_bh09, lqbol, lbol_bc_bh09) and the helpers   *)
(* they call.                                                              *)
(*                                                                         *)
(* Units.  Julian dates are integers (days).  Wavelengths are integers in  *)
(* Angstrom.  Magnitudes and their uncertainties are integers in           *)
(* millimagnitudes.  Fluxes are integers in units of the faintest          *)
(* modelled flux.  Distances are integers in Mpc, so luminosities are in   *)
(* units of 4*pi*(mpc_to_cm)^2.  The luminosity uncertainty column         *)
(* (lbol_err) is not modelled.                                             *)
(***************************************************************************)
EXTENDS Integers, Sequences, FiniteSets, TLC

VARIABLES
    build,            \* the interpreter/numpy pair the program runs under
    sn_node,          \* TRUE iff the data file has the node /sn/<name>
    phot_table,       \* rows of /sn/<name>/phot in the data file
    parameter_table,  \* the row of /sn/<name>/parameters in the data file
    photometry,       \* self.photometry: None or the cached array
    open_files,       \* number of data-file handles opened and not closed
    loads,            \* get_photometry calls made by lqbol/lbol_direct_bh09
    last,             \* the last top-level call: how it ended, what it returned
    epoch_log         \* per-epoch locals of the last call: for
                      \* lbol_direct_bh09 at the point where the UV correction
                      \* is chosen, for lbol_bc_bh09 at the call of calc_Lbol

vars == <<build, sn_node, phot_table, parameter_table, photometry,
          open_files, loads, last, epoch_log>>

----------------------------------------------------------------------------
(* Bounds of the model *)

\* the largest number of distinct epochs in the photometry table
MaxEpochs == 2

\* the number of epochs of the largest table in which every epoch has UBVRI
ScenarioEpochs == 5

\* the largest number of leaked (never closed) file handles explored
MaxOpenFiles == 1

----------------------------------------------------------------------------
(* Constants of the program *)

\* self.min_num_obs = 4
min_num_obs == 4

\* 909.09 <= filt['eff_wl'] <= 33333.33, both sides times 100
EffWlMin100 == 90909
EffWlMax100 == 3333333

\* if min(wavelengths) < 10000.0
IrOnlyLimit == 10000

\* None, and a value that is not None
None == <<>>
Some(v) == <<v>>

----------------------------------------------------------------------------
(* Sequence helpers standing for the numpy primitives the code uses *)

Range(s) == {s[i] : i \in 1..Len(s)}

Min(S) == CHOOSE x \in S : \A y \in S : x <= y
Max(S) == CHOOSE x \in S : \A y \in S : x >= y

\* np.unique(a): the distinct values of a, ascending
RECURSIVE np_unique_set(_)
np_unique_set(S) ==
    IF S = {} THEN <<>>
    ELSE LET m == Min(S) IN <<m>> \o np_unique_set(S \ {m})

np_unique(a) == np_unique_set(Range(a))

\* np.argsort(a): the permutation that sorts a ascending (ties keep their order)
RECURSIVE InsertIdx(_, _, _)
InsertIdx(a, sorted, i) ==
    IF sorted = <<>> THEN <<i>>
    ELSE IF a[i] < a[Head(sorted)] THEN <<i>> \o sorted
    ELSE <<Head(sorted)>> \o InsertIdx(a, Tail(sorted), i)

RECURSIVE ArgsortUpTo(_, _)
ArgsortUpTo(a, n) ==
    IF n = 0 THEN <<>> ELSE InsertIdx(a, ArgsortUpTo(a, n - 1), n)

np_argsort(a) == ArgsortUpTo(a, Len(a))

\* a[indices]
Take(a, indices) == [k \in 1..Len(indices) |-> a[indices[k]]]

\* [f(x) for x in a]
Column(a, field) == [k \in 1..Len(a) |-> a[k][field]]

\* floor of the square root, by bisection of lo..hi
RECURSIVE ISqrtIn(_, _, _)
ISqrtIn(n, lo, hi) ==
    IF lo >= hi THEN lo
    ELSE LET mid == (lo + hi + 1) \div 2
         IN  IF mid * mid <= n THEN ISqrtIn(n, mid, hi)
             ELSE ISqrtIn(n, lo, mid - 1)
np_sqrt(n) == ISqrtIn(n, 0, 1000)

RECURSIVE Pow10(_)
Pow10(k) == IF k <= 0 THEN 1 ELSE 10 * Pow10(k - 1)

----------------------------------------------------------------------------
(* The data file: the filter table and the families of photometry tables  *)

\* h5file.root.filters: the global filter reference table
filter_table == <<
    [filter_id |-> 1,  name |-> "U", eff_wl |-> 3660,  flux_zeropoint |-> 2],
    [filter_id |-> 2,  name |-> "B", eff_wl |-> 4380,  flux_zeropoint |-> 3],
    [filter_id |-> 3,  name |-> "V", eff_wl |-> 5450,  flux_zeropoint |-> 2],
    [filter_id |-> 4,  name |-> "R", eff_wl |-> 6410,  flux_zeropoint |-> 2],
    [filter_id |-> 5,  name |-> "I", eff_wl |-> 7980,  flux_zeropoint |-> 1],
    [filter_id |-> 6,  name |-> "z", eff_wl |-> 9100,  flux_zeropoint |-> 1],
    [filter_id |-> 7,  name |-> "Y", eff_wl |-> 10200, flux_zeropoint |-> 2],
    [filter_id |-> 8,  name |-> "J", eff_wl |-> 12200, flux_zeropoint |-> 3],
    [filter_id |-> 9,  name |-> "H", eff_wl |-> 16300, flux_zeropoint |-> 1],
    [filter_id |-> 10, name |-> "K", eff_wl |-> 21900, flux_zeropoint |-> 1],
    [filter_id |-> 11, name |-> "M", eff_wl |-> 47500, flux_zeropoint |-> 1] >>

\* the filter sets an epoch of the explored tables may have been observed in
\* (filter ids): UBVRI, YJHK, VRIz, BRIM
FilterSets == <<
    <<1, 2, 3, 4, 5>>,
    <<7, 8, 9, 10>>,
    <<3, 4, 5, 6>>,
    <<2, 4, 5, 11>> >>

\* the brightest and the faintest explored magnitude, and the step (2.5 mag,
\* a factor of ten in flux), in millimagnitudes
MagBright == 6 * 2500
MagFaint  == 8 * 2500
MagStep   == MagFaint - MagBright - 2500

\* two spectral shapes: "blue" (odd epochs) is brightest in the bluest
\* filters, "red" (even epochs) is brightest in the reddest
BlueMag(id) ==
    IF id <= 2 THEN MagBright
    ELSE IF id <= 4 THEN MagBright + MagStep
    ELSE MagFaint

ShapeMag(k, id) ==
    IF k % 2 = 1 THEN BlueMag(id)
    ELSE MagBright + MagFaint - BlueMag(id)

\* the Julian date of the k-th epoch of a table
EpochJD(k) == 10 * k

\* one row of the photometry table
PhotRow(k, id) ==
    [jd |-> EpochJD(k), filter_id |-> id,
     magnitude |-> ShapeMag(k, id),
     uncertainty |-> 50 + (ShapeMag(k, id) - MagBright) \div 50]

\* the rows of epoch k, bluest filter first
EpochRows(k, set) ==
    [i \in 1..Len(FilterSets[set]) |-> PhotRow(k, FilterSets[set][i])]

RECURSIVE TableRows(_, _)
TableRows(cfg, k) ==
    IF k > Len(cfg) THEN <<>>
    ELSE EpochRows(k, cfg[k]) \o TableRows(cfg, k + 1)

Reverse(s) == [i \in 1..Len(s) |-> s[Len(s) + 1 - i]]

\* the orders in which a table may list its rows
RowOrders == {"ascending", "descending"}

\* a photometry table: per epoch a filter set, and a row order.  The tables
\* explored have up to MaxEpochs epochs of any filter set, or ScenarioEpochs
\* epochs of UBVRI
TableConfigs ==
    UNION {[1..n -> 1..Len(FilterSets)] : n \in 1..MaxEpochs}
    \cup {[k \in 1..ScenarioEpochs |-> 1]}

PhotTable(cfg, order) ==
    IF order = "ascending" THEN TableRows(cfg, 1)
    ELSE Reverse(TableRows(cfg, 1))

\* the parameter row explored: the explosion at the Julian date of the first
\* epoch, dust in the Galaxy and in the host
ParameterRows == {
    [explosion_JD |-> EpochJD(1), explosion_JD_err |-> 2,
     Av_gal |-> 1, Av_host |-> 1,
     distance_Mpc |-> 2, distance_Mpc_err |-> 1] }

\* the builds the program runs under.  Under Python 2 a str literal is a byte
\* string; under Python 3 it is not, and comparing an 'S1' array with a str
\* matches nothing.  Before numpy 1.25 a structured array == None is the
\* scalar False; from 1.25 on it is an array of False, one per row.
Builds == {"py2", "py3", "py3_numpy125"}

StrIsBytes(b) == b = "py2"
NoneEqElementwise(b) == b = "py3_numpy125"

----------------------------------------------------------------------------
(* Modules of the package that sn.py imports *)

\* mag2flux(magnitude, uncertainty, eff_wl, flux_zeropoint):
\* flux = zeropoint * 10^(-0.4 * magnitude), in units of 10^(-0.4 * MagFaint);
\* flux_err = flux * ln(10) * 0.4 * uncertainty, in thousandths of that unit
mag2flux(magnitude, uncertainty, eff_wl, flux_zeropoint) ==
    LET flux == flux_zeropoint * Pow10((2 * (MagFaint - magnitude)) \div 5000)
    IN  <<flux, (flux * 921 * uncertainty) \div 1000>>

\* zip_photometry(photometry): one time-ordered view of the photometry (the
\* rows of the earliest epoch in their order, then those of the next, ...)
RECURSIVE ZipFrom(_, _)
ZipFrom(phot, jds) ==
    IF jds = <<>> THEN <<>>
    ELSE LET AtHead(x) == x.jd = Head(jds)
         IN  SelectSeq(phot, AtHead) \o ZipFrom(phot, Tail(jds))

zip_photometry(phot) == ZipFrom(phot, np_unique(Column(phot, "jd")))

\* extinction.reddening(wavelength, Av, model='ccm89'): the factor by which
\* dust dimmed the flux: 1 without dust, larger towards the blue
reddening(wavelength, Av) ==
    1 + Av * (IF wavelength < 4000 THEN 3
              ELSE IF wavelength < 6000 THEN 2
              ELSE 1)

\* integrate_fqbol(wavelengths, fluxes, flux_errs): twice the trapezoidal
\* integral of flux over the observed wavelengths
RECURSIVE TrapezoidFrom(_, _, _)
TrapezoidFrom(wavelengths, fluxes, i) ==
    IF i >= Len(wavelengths) THEN 0
    ELSE (wavelengths[i + 1] - wavelengths[i]) * (fluxes[i] + fluxes[i + 1])
         + TrapezoidFrom(wavelengths, fluxes, i + 1)

fqbol_trapezoidal(wavelengths, fluxes, flux_errs) ==
    TrapezoidFrom(wavelengths, fluxes, 1)

\* the results a blackbody fit of one epoch may have: a temperature (the
\* angular radius is fixed by it here), or no convergence (curve_fit raises
\* RuntimeError)
Temperatures == {1, 2}
NotConverged == [converged |-> FALSE, temperature |-> 0]
FitOutcomes ==
    {[converged |-> TRUE, temperature |-> t] : t \in Temperatures}
    \cup {NotConverged}

\* bb_fit_parameters(wavelengths, fluxes, flux_errs): fewer than two points
\* cannot be fitted; otherwise the fit converges or it does not
bb_fit_parameters(wavelengths, fluxes, flux_errs, outcome) ==
    IF Len(wavelengths) < 2 THEN NotConverged ELSE outcome

\* bb_flux_nounits(wavelength, temperature, angular_radius): the flux of the
\* fitted blackbody at a wavelength
bb_flux_nounits(wavelength, temperature) ==
    IF temperature = 1 THEN 20 + wavelength \div 1000
    ELSE 5000 - wavelength \div 1000

\* ir_correction(T, T_err, R, R_err, longest_wl): twice the blackbody's flux
\* redward of the longest observed wavelength
ir_correction(temperature, longest_wl) ==
    (100000 \div longest_wl) * bb_flux_nounits(longest_wl, temperature)

\* uv_correction_blackbody(T, T_err, R, R_err, shortest_wl): twice the
\* blackbody's flux blueward of the shortest observed wavelength
uv_correction_blackbody(temperature, shortest_wl) ==
    shortest_wl * bb_flux_nounits(shortest_wl \div 2, temperature)

\* uv_correction_linear(shortest_wl, shortest_flux, shortest_flux_err): twice
\* the area under the line from zero flux at zero wavelength to the point
uv_correction_linear(shortest_wl, shortest_flux, shortest_flux_err) ==
    shortest_wl * shortest_flux

\* the colours calc_Lbol has a calibration for
SupportedColors == {"BminusV", "VminusI", "BminusI"}

\* calc_Lbol(color, color_err, color_type, v_mag, v_mag_err, distance_cm,
\* distance_cm_err): one luminosity per V magnitude handed in; a colour
\* without a calibration is an error
calc_Lbol(color, color_err, color_type, v_mag, v_mag_err, distance) ==
    IF color_type \notin SupportedColors
    THEN [error |-> "UnsupportedColor", lbol |-> <<>>]
    ELSE [error |-> "none",
          lbol |-> [k \in 1..Len(v_mag) |->
                      (distance * distance
                       * (2 * MagFaint - v_mag[k] + color)) \div 100]]

----------------------------------------------------------------------------
(* The helper methods of SN *)

\* the rows of filter_table with the given filter_id, as
\* self.filter_table.where('(filter_id == filterid)') yields them
FilterRows(filterid) ==
    LET Test(filt) == filt.filter_id = filterid
    IN  SelectSeq(filter_table, Test)

\* get_photometry(): one row [jd, name, id, magnitude, uncertainty] per
\* observation and filter row matching its filter_id
RECURSIVE PhotometryFrom(_, _)
PhotometryFrom(table, i) ==
    IF i > Len(table) THEN <<>>
    ELSE LET obs == table[i]
             filts == FilterRows(obs.filter_id)
         IN  [k \in 1..Len(filts) |->
                 [jd |-> obs.jd, name |-> filts[k].name,
                  id |-> filts[k].filter_id,
                  magnitude |-> obs.magnitude,
                  uncertainty |-> obs.uncertainty]]
             \o PhotometryFrom(table, i + 1)

get_photometry(table) == PhotometryFrom(table, 1)

\* the CCM89 coefficients of deredden_UBVRI_magnitudes, times 1000
ccm89_corr ==
    [n \in {"U", "B", "V", "R", "I"} |->
        CASE n = "U" -> 1569 [] n = "B" -> 1337 [] n = "V" -> 1000
          [] n = "R" -> 751  [] n = "I" -> 479]

\* deredden_UBVRI_magnitudes(photometry): the array after the in-place
\* update of its UBVRI magnitudes
deredden_UBVRI_magnitudes(phot, parameters) ==
    LET Av_tot == parameters.Av_gal + parameters.Av_host
    IN  [k \in 1..Len(phot) |->
            IF phot[k].name \in DOMAIN ccm89_corr
            THEN [phot[k] EXCEPT
                    !.magnitude = @ - ccm89_corr[phot[k].name] * Av_tot]
            ELSE phot[k]]

\* get_bc_epochs with "if has_filter1 or has_filter2"
get_bc_epochs_either(phot, filter1, filter2) ==
    LET Test(jd_unique) ==
            \E i \in 1..Len(phot) :
                /\ phot[i].jd = jd_unique
                /\ phot[i].name \in {filter1, filter2}
    IN  SelectSeq(np_unique(Column(phot, "jd")), Test)

\* get_bc_epochs(photometry, filter1, filter2)
bc_has_filters(phot, jd_unique, filter1, filter2) ==
    LET has_filter1 == \E i \in 1..Len(phot) :
                          /\ phot[i].jd = jd_unique
                          /\ phot[i].name = filter1
        \* elif: a row of filter1 is never counted for filter2
        has_filter2 == \E i \in 1..Len(phot) :
                          /\ phot[i].jd = jd_unique
                          /\ phot[i].name # filter1
                          /\ phot[i].name = filter2
    IN  has_filter1 /\ has_filter2

get_bc_epochs(phot, filter1, filter2) ==
    LET Test(jd_unique) == bc_has_filters(phot, jd_unique, filter1, filter2)
    IN  SelectSeq(np_unique(Column(phot, "jd")), Test)

\* the value the loop of get_color / get_color_uncertainty leaves in f1 or f2:
\* the field of the last matching row, or None
LastMatch(phot, jd, field, filter, excluded) ==
    LET hits == {i \in 1..Len(phot) :
                    /\ phot[i].jd = jd
                    /\ phot[i].name = filter
                    /\ phot[i].name \notin excluded}
    IN  IF hits = {} THEN None ELSE Some(phot[Max(hits)][field])

\* get_color(photometry, jd, filter1, filter2)
get_color(phot, jd, filter1, filter2) ==
    LET f1_mag == LastMatch(phot, jd, "magnitude", filter1, {})
        f2_mag == LastMatch(phot, jd, "magnitude", filter2, {filter1})
    IN  IF f1_mag = None \/ f2_mag = None THEN None
        ELSE Some(f1_mag[1] - f2_mag[1])

\* get_color_uncertainty(photometry, jd, filter1, filter2)
get_color_uncertainty(phot, jd, filter1, filter2) ==
    LET f1_err == LastMatch(phot, jd, "uncertainty", filter1, {})
        f2_err == LastMatch(phot, jd, "uncertainty", filter2, {filter1})
    IN  IF f1_err = None \/ f2_err = None THEN None
        ELSE Some(np_sqrt(f1_err[1] * f1_err[1] + f2_err[1] * f2_err[1]))

\* get_distance_cm(), in Mpc
get_distance_cm(parameters) == parameters.distance_Mpc

\* get_lbol_epochs(converted_obs, min_number_obs)
RECURSIVE num_obs_from(_, _, _)
num_obs_from(converted_obs, jd_unique, i) ==
    IF i > Len(converted_obs) THEN 0
    ELSE (IF converted_obs[i].jd = jd_unique THEN 1 ELSE 0)
         + num_obs_from(converted_obs, jd_unique, i + 1)

\* get_lbol_epochs with "num_obs > min_number_obs"
get_lbol_epochs_strict(converted_obs, min_number_obs) ==
    LET Test(jd_unique) ==
            num_obs_from(converted_obs, jd_unique, 1) > min_number_obs
    IN  SelectSeq(np_unique(Column(converted_obs, "jd")), Test)

get_lbol_epochs(converted_obs, min_number_obs) ==
    LET Test(jd_unique) ==
            num_obs_from(converted_obs, jd_unique, 1) >= min_number_obs
    IN  SelectSeq(np_unique(Column(converted_obs, "jd")), Test)

\* convert_magnitudes_to_fluxes(photometry): one row [jd, name, wavelength,
\* flux, uncertainty] per observation whose filter lies in the valid range
RECURSIVE ConvertFrom(_, _)
ConvertFrom(phot, i) ==
    IF i > Len(phot) THEN <<>>
    ELSE LET obs == phot[i]
             filts == FilterRows(obs.id)
             Valid(filt) == /\ EffWlMin100 <= 100 * filt.eff_wl
                            /\ 100 * filt.eff_wl <= EffWlMax100
             kept == SelectSeq(filts, Valid)
         IN  [k \in 1..Len(kept) |->
                 LET fl == mag2flux(obs.magnitude, obs.uncertainty,
                                    kept[k].eff_wl, kept[k].flux_zeropoint)
                 IN  [jd |-> obs.jd, name |-> kept[k].name,
                      wavelength |-> kept[k].eff_wl,
                      flux |-> fl[1], uncertainty |-> fl[2]]]
             \o ConvertFrom(phot, i + 1)

convert_magnitudes_to_fluxes(phot) == ConvertFrom(phot, 1)

\* deredden_fluxes(converted_obs): the array after the in-place update of
\* its fluxes (the same array object as its argument)
deredden_fluxes(converted_obs, parameters) ==
    LET Av_tot == parameters.Av_gal + parameters.Av_host
    IN  [k \in 1..Len(converted_obs) |->
            [converted_obs[k] EXCEPT
                !.flux = @ * reddening(converted_obs[k].wavelength, Av_tot)]]

----------------------------------------------------------------------------
(* The top-level methods of SN.  Each is an operator from the state before *)
(* the call to how the call ends: error is "none" when the call returns    *)
(* (after h5file.close()) and the exception otherwise (h5file is then      *)
(* never closed: no handler and no finally clause surrounds the body).     *)

\* self.photometry == None, as the if statement sees it
photometry_is_None(b, cache) ==
    IF cache = None THEN "True"
    ELSE IF NoneEqElementwise(b) /\ Len(cache[1]) > 1 THEN "ValueError"
    ELSE "False"

\* how a call ends
Ended(error, lc, cache, loaded, epochs, log) ==
    [error |-> error, lc |-> IF error = "none" THEN lc ELSE <<>>,
     photometry |-> cache, loaded |-> loaded, epochs |-> epochs, log |-> log]

\* the rows of one epoch
EpochObs(obs, jd, skipped) ==
    LET Test(x) == x.jd = jd /\ x.name \notin skipped
    IN  SelectSeq(obs, Test)

\* 'U' in names
U_in_names(b, names) == StrIsBytes(b) /\ "U" \in Range(names)

\* np.nonzero(names == 'U')[0][0]
U_index(names) == Min({i \in 1..Len(names) : names[i] = "U"})

\* one pass of the loop of lbol_direct_bh09
direct_epoch(b, converted_obs, jd, parameters, outcome) ==
    LET rows == EpochObs(converted_obs, jd, {"z"})
        names == Column(rows, "name")
        sort_indices == np_argsort(Column(rows, "wavelength"))
        wavelengths == Take(Column(rows, "wavelength"), sort_indices)
        fluxes == Take(Column(rows, "flux"), sort_indices)
        flux_errs == Take(Column(rows, "uncertainty"), sort_indices)
        fqbol == fqbol_trapezoidal(wavelengths, fluxes, flux_errs)
        fit == bb_fit_parameters(wavelengths, fluxes, flux_errs, outcome)
        temperature == fit.temperature
        shortest_wl == Min(Range(wavelengths))
        shortest_flux == Min(Range(fluxes))
        shortest_flux_err == Min(Range(flux_errs))
        longest_wl == Max(Range(wavelengths))
        ir_corr == ir_correction(temperature, longest_wl)
        has_U == U_in_names(b, names)
        idx == IF has_U THEN U_index(names) ELSE 1
        U_flux == fluxes[idx]
        U_wl == wavelengths[idx]
        bb == bb_flux_nounits(U_wl, temperature)
        method == IF has_U /\ U_flux < bb THEN "linear" ELSE "blackbody"
        uv_corr == IF method = "linear"
                   THEN uv_correction_linear(shortest_wl, shortest_flux,
                                             shortest_flux_err)
                   ELSE uv_correction_blackbody(temperature, shortest_wl)
        fbol == fqbol + ir_corr + uv_corr
        d == get_distance_cm(parameters)
    IN  IF ~fit.converged
        THEN [error |-> "RuntimeError", point |-> <<>>, log |-> <<>>]
        ELSE [error |-> "none",
              point |-> <<[jd |-> jd,
                           phase |-> jd - parameters.explosion_JD,
                           phase_err |-> parameters.explosion_JD_err,
                           lbol |-> fbol * d * d]>>,
              log |-> <<[jd |-> jd, names |-> names,
                         wavelengths |-> wavelengths, fluxes |-> fluxes,
                         flux_errs |-> flux_errs, temperature |-> temperature,
                         has_U |-> has_U, U_flux |-> U_flux, U_wl |-> U_wl,
                         method |-> method, shortest_wl |-> shortest_wl,
                         shortest_flux |-> shortest_flux,
                         shortest_flux_err |-> shortest_flux_err]>>]

\* what the fits of one call do: they converge on one temperature, except
\* that the fit of the fails_at-th processed epoch (if any) does not converge
Fits(n) == [temperature : Temperatures, fails_at : 0..n]

FitOutcome(fits, i) ==
    IF i = fits.fails_at THEN NotConverged
    ELSE [converged |-> TRUE, temperature |-> fits.temperature]

\* for jd in lbol_epochs: ... (the loop ends at the first exception)
RECURSIVE direct_loop(_, _, _, _, _, _)
direct_loop(b, converted_obs, lbol_epochs, i, parameters, fits) ==
    IF i > Len(lbol_epochs) THEN [error |-> "none", lc |-> <<>>, log |-> <<>>]
    ELSE LET r == direct_epoch(b, converted_obs, lbol_epochs[i], parameters,
                               FitOutcome(fits, i))
             rest == direct_loop(b, converted_obs, lbol_epochs, i + 1,
                                 parameters, fits)
         IN  IF r.error # "none"
             THEN [error |-> r.error, lc |-> <<>>, log |-> <<>>]
             ELSE [error |-> rest.error, lc |-> r.point \o rest.lc,
                   log |-> r.log \o rest.log]

\* the lines that lbol_direct_bh09 and lqbol share, from open_source_h5file
\* to get_lbol_epochs.  converted_obs and dereddened_obs are one array:
\* deredden_fluxes updates its argument in place and returns it
load_fluxes(b, node, table, parameters, cache) ==
    IF ~node
    THEN [error |-> "NoSuchNodeError", photometry |-> cache, loaded |-> 0,
          dereddened_obs |-> <<>>, lbol_epochs |-> <<>>]
    ELSE IF photometry_is_None(b, cache) = "ValueError"
    THEN [error |-> "ValueError", photometry |-> cache, loaded |-> 0,
          dereddened_obs |-> <<>>, lbol_epochs |-> <<>>]
    ELSE
    LET load == photometry_is_None(b, cache) = "True"
        phot == IF load THEN get_photometry(table) ELSE cache[1]
        combined_phot == zip_photometry(phot)
        converted_obs == convert_magnitudes_to_fluxes(combined_phot)
        dereddened_obs == deredden_fluxes(converted_obs, parameters)
    IN  [error |-> "none", photometry |-> Some(phot),
         loaded |-> IF load THEN 1 ELSE 0,
         dereddened_obs |-> dereddened_obs,
         lbol_epochs |-> get_lbol_epochs(dereddened_obs, min_num_obs)]

\* lbol_direct_bh09(), from the loop on
direct_from(b, pre, parameters, fits) ==
    IF pre.error # "none"
    THEN Ended(pre.error, <<>>, pre.photometry, 0, <<>>, <<>>)
    ELSE LET loop == direct_loop(b, pre.dereddened_obs, pre.lbol_epochs, 1,
                                 parameters, fits)
         IN  Ended(loop.error, loop.lc, pre.photometry, pre.loaded,
                   pre.lbol_epochs, loop.log)

\* lbol_direct_bh09()
lbol_direct_bh09(b, node, table, parameters, cache, fits) ==
    direct_from(b, load_fluxes(b, node, table, parameters, cache),
                parameters, fits)

\* lqbol_epoch without the test for IR-only nights
lqbol_epoch_every_night(dereddened_obs, jd, parameters) ==
    LET rows == EpochObs(dereddened_obs, jd, {})
        sort_indices == np_argsort(Column(rows, "wavelength"))
        wavelengths == Take(Column(rows, "wavelength"), sort_indices)
        fluxes == Take(Column(rows, "flux"), sort_indices)
        flux_errs == Take(Column(rows, "uncertainty"), sort_indices)
        d == get_distance_cm(parameters)
    IN  <<[jd |-> jd,
           phase |-> jd - parameters.explosion_JD,
           phase_err |-> parameters.explosion_JD_err,
           lbol |-> fqbol_trapezoidal(wavelengths, fluxes, flux_errs)
                    * d * d]>>

\* lqbol_epoch with "phase = self.parameter_table.cols.explosion_JD[0] - jd"
lqbol_epoch_phase_reversed(dereddened_obs, jd, parameters) ==
    LET rows == EpochObs(dereddened_obs, jd, {})
        sort_indices == np_argsort(Column(rows, "wavelength"))
        wavelengths == Take(Column(rows, "wavelength"), sort_indices)
        fluxes == Take(Column(rows, "flux"), sort_indices)
        flux_errs == Take(Column(rows, "uncertainty"), sort_indices)
        d == get_distance_cm(parameters)
    IN  IF Min(Range(wavelengths)) < IrOnlyLimit
        THEN <<[jd |-> jd,
                phase |-> parameters.explosion_JD - jd,
                phase_err |-> parameters.explosion_JD_err,
                lbol |-> fqbol_trapezoidal(wavelengths, fluxes, flux_errs)
                         * d * d]>>
        ELSE <<>>

\* one pass of the loop of lqbol: the point, if the epoch is not IR-only
lqbol_epoch(dereddened_obs, jd, parameters) ==
    LET rows == EpochObs(dereddened_obs, jd, {})
        sort_indices == np_argsort(Column(rows, "wavelength"))
        wavelengths == Take(Column(rows, "wavelength"), sort_indices)
        fluxes == Take(Column(rows, "flux"), sort_indices)
        flux_errs == Take(Column(rows, "uncertainty"), sort_indices)
        names == Take(Column(rows, "name"), sort_indices)
        fqbol == fqbol_trapezoidal(wavelengths, fluxes, flux_errs)
        d == get_distance_cm(parameters)
    IN  IF Min(Range(wavelengths)) < IrOnlyLimit
        THEN <<[jd |-> jd,
                phase |-> jd - parameters.explosion_JD,
                phase_err |-> parameters.explosion_JD_err,
                lbol |-> fqbol * d * d]>>
        ELSE <<>>

RECURSIVE lqbol_loop(_, _, _, _)
lqbol_loop(dereddened_obs, lbol_epochs, i, parameters) ==
    IF i > Len(lbol_epochs) THEN <<>>
    ELSE lqbol_epoch(dereddened_obs, lbol_epochs[i], parameters)
         \o lqbol_loop(dereddened_obs, lbol_epochs, i + 1, parameters)

\* lqbol()
lqbol(b, node, table, parameters, cache) ==
    LET pre == load_fluxes(b, node, table, parameters, cache)
    IN  IF pre.error # "none"
        THEN Ended(pre.error, <<>>, pre.photometry, 0, <<>>, <<>>)
        ELSE Ended("none",
                   lqbol_loop(pre.dereddened_obs, pre.lbol_epochs, 1,
                              parameters),
                   pre.photometry, pre.loaded, pre.lbol_epochs, <<>>)

\* filter1 + "minus" + filter2
ColorType(filter1, filter2) == filter1 \o "minus" \o filter2

\* one pass of the loop of lbol_bc_bh09
bc_epoch(dereddened_phot, jd, filter1, filter2, parameters) ==
    LET color == get_color(dereddened_phot, jd, filter1, filter2)
        color_err == get_color_uncertainty(dereddened_phot, jd,
                                           filter1, filter2)
        Vrow(x) == x.jd = jd /\ x.name = "V"
        v_mag == Column(SelectSeq(dereddened_phot, Vrow), "magnitude")
        v_mag_err == Column(SelectSeq(dereddened_phot, Vrow), "uncertainty")
        log == <<[jd |-> jd, color |-> color, color_err |-> color_err,
                  v_mag |-> v_mag, v_mag_err |-> v_mag_err]>>
        r == calc_Lbol(color[1], color_err[1], ColorType(filter1, filter2),
                       v_mag, v_mag_err, get_distance_cm(parameters))
    IN  IF ColorType(filter1, filter2) \notin SupportedColors
        THEN [error |-> "UnsupportedColor", point |-> <<>>, log |-> log]
        ELSE IF color = None \/ color_err = None
        THEN [error |-> "TypeError", point |-> <<>>, log |-> log]
        \* a row of bc_lc takes one number for lbol, not an array of 0 or 2
        ELSE IF Len(r.lbol) # 1
        THEN [error |-> "ValueError", point |-> <<>>, log |-> log]
        ELSE [error |-> "none",
              point |-> <<[jd |-> jd,
                           phase |-> jd - parameters.explosion_JD,
                           phase_err |-> parameters.explosion_JD_err,
                           lbol |-> r.lbol[1]]>>,
              log |-> log]

RECURSIVE bc_loop(_, _, _, _, _, _)
bc_loop(dereddened_phot, bc_epochs, i, filter1, filter2, parameters) ==
    IF i > Len(bc_epochs) THEN [error |-> "none", lc |-> <<>>, log |-> <<>>]
    ELSE LET r == bc_epoch(dereddened_phot, bc_epochs[i], filter1, filter2,
                           parameters)
             rest == bc_loop(dereddened_phot, bc_epochs, i + 1, filter1,
                             filter2, parameters)
         IN  IF r.error # "none"
             THEN [error |-> r.error, lc |-> <<>>, log |-> r.log]
             ELSE [error |-> rest.error, lc |-> r.point \o rest.lc,
                   log |-> r.log \o rest.log]

\* lbol_bc_bh09(filter1, filter2), up to deredden_UBVRI_magnitudes:
\* self.photometry is neither read nor set
load_magnitudes(node, table, parameters) ==
    IF ~node THEN [error |-> "NoSuchNodeError", dereddened_phot |-> <<>>]
    ELSE [error |-> "none",
          dereddened_phot |->
              deredden_UBVRI_magnitudes(get_photometry(table), parameters)]

\* lbol_bc_bh09(filter1, filter2), from get_bc_epochs on
bc_from(pre, parameters, cache, filter1, filter2) ==
    IF pre.error # "none"
    THEN Ended(pre.error, <<>>, cache, 0, <<>>, <<>>)
    ELSE LET bc_epochs == get_bc_epochs(pre.dereddened_phot, filter1, filter2)
             loop == bc_loop(pre.dereddened_phot, bc_epochs, 1, filter1,
                             filter2, parameters)
         IN  Ended(loop.error, loop.lc, cache, 0, bc_epochs, loop.log)

\* lbol_bc_bh09(filter1, filter2)
lbol_bc_bh09(b, node, table, parameters, cache, filter1, filter2) ==
    bc_from(load_magnitudes(node, table, parameters), parameters, cache,
            filter1, filter2)

----------------------------------------------------------------------------
(* The state machine: an SN instance and the calls made on it *)

\* the filter pairs lbol_bc_bh09 is called with
BcPairs == {<<"B", "V">>, <<"V", "I">>, <<"B", "I">>, <<"R", "I">>,
            <<"V", "V">>}

NoFits == [temperature |-> 0, fails_at |-> 0]

NoCall == [method |-> "none", filter1 |-> "", filter2 |-> "", fits |-> NoFits,
           cached |-> FALSE, error |-> "none", lc |-> <<>>, epochs |-> <<>>]

\* SN(name, source): __init__ sets self.photometry = None and opens nothing
InitInstance ==
    /\ photometry = None
    /\ open_files = 0
    /\ loads = 0
    /\ last = NoCall
    /\ epoch_log = <<>>

\* a data file without the supernova's node
InitNoNode ==
    /\ sn_node = FALSE
    /\ phot_table = <<>>
    /\ parameter_table \in ParameterRows

Init ==
    /\ build \in Builds
    /\ \/ /\ sn_node = TRUE
          /\ \E cfg \in TableConfigs, order \in RowOrders :
                phot_table = PhotTable(cfg, order)
          /\ parameter_table \in ParameterRows
       \/ InitNoNode
    /\ InitInstance

\* the state after a call that ended as r
AfterCall(method, filter1, filter2, fits, r) ==
    /\ photometry' = r.photometry
    /\ open_files' = IF r.error = "none" THEN open_files ELSE open_files + 1
    /\ loads' = loads + r.loaded
    /\ last' = [method |-> method, filter1 |-> filter1, filter2 |-> filter2,
                fits |-> fits, cached |-> photometry # None,
                error |-> r.error, lc |-> r.lc, epochs |-> r.epochs]
    /\ epoch_log' = r.log
    /\ UNCHANGED <<build, sn_node, phot_table, parameter_table>>

\* a call of lbol_direct_bh09(), with every way its fits may go
CallLbolDirectBh09 ==
    /\ open_files < MaxOpenFiles
    /\ LET pre == load_fluxes(build, sn_node, phot_table, parameter_table,
                              photometry)
       IN  \E fits \in IF pre.lbol_epochs = <<>> THEN {NoFits}
                        ELSE Fits(Len(pre.lbol_epochs)) :
              AfterCall("lbol_direct_bh09", "", "", fits,
                        direct_from(build, pre, parameter_table, fits))

\* a call of lqbol()
CallLqbol ==
    /\ open_files < MaxOpenFiles
    /\ AfterCall("lqbol", "", "", NoFits,
                 lqbol(build, sn_node, phot_table, parameter_table,
                       photometry))

\* a call of lbol_bc_bh09(filter1, filter2)
CallLbolBcBh09 ==
    /\ open_files < MaxOpenFiles
    /\ LET pre == load_magnitudes(sn_node, phot_table, parameter_table)
       IN  \E pair \in BcPairs :
              AfterCall("lbol_bc_bh09", pair[1], pair[2], NoFits,
                        bc_from(pre, parameter_table, photometry,
                                pair[1], pair[2]))

Next == CallLbolDirectBh09 \/ CallLqbol \/ CallLbolBcBh09

Spec == Init /\ [][Next]_vars

----------------------------------------------------------------------------
(* The data file as the claims speak of it, read off the tables directly *)

\* the filter an observation was made in
FilterById(id) == CHOOSE f \in Range(filter_table) : f.filter_id = id
FilterOfRow(i) == FilterById(phot_table[i].filter_id)

\* the epochs of the photometry table and the observations of one epoch
TableJDs == {phot_table[i].jd : i \in DOMAIN phot_table}
RowsAt(jd) == {i \in DOMAIN phot_table : phot_table[i].jd = jd}

\* the observations of an epoch that give a valid flux point
ValidRowsAt(jd) ==
    {i \in RowsAt(jd) : /\ 100 * FilterOfRow(i).eff_wl >= EffWlMin100
                        /\ 100 * FilterOfRow(i).eff_wl <= EffWlMax100}

\* the epochs with at least n valid flux points
EpochsWithAtLeast(n) == {jd \in TableJDs : Cardinality(ValidRowsAt(jd)) >= n}

StrictlyAscending(s) == \A i \in 1..(Len(s) - 1) : s[i] < s[i + 1]

\* s lists exactly the members of S, each once, ascending
ListsAscending(s, S) == StrictlyAscending(s) /\ Range(s) = S

\* the flux points of a fresh instance, as convert_magnitudes_to_fluxes
\* returns them
FreshConvertedObs ==
    convert_magnitudes_to_fluxes(zip_photometry(get_photometry(phot_table)))

\* the last call was one of the two flux methods and got as far as
\* get_lbol_epochs
FluxCallSelected ==
    /\ last.method \in {"lqbol", "lbol_direct_bh09"}
    /\ last.error \notin {"NoSuchNodeError", "ValueError"}

----------------------------------------------------------------------------
(* C5: get_lbol_epochs(converted_obs, min_number_obs) returns exactly the  *)
(* distinct epochs that have at least min_number_obs valid flux points     *)
(* (observations whose filter has 909.09 <= eff_wl <= 33333.33), each once *)
(* and in ascending order; checked for the thresholds 3, 4 and 5 on the    *)
(* flux points of every table, and for the epochs the flux methods select  *)
(* with the default threshold 4.                                           *)
C5_LbolEpochs ==
    /\ \A n \in (min_num_obs - 1)..(min_num_obs + 1) :
          ListsAscending(get_lbol_epochs(FreshConvertedObs, n),
                         EpochsWithAtLeast(n))
    /\ FluxCallSelected =>
          ListsAscending(last.epochs, EpochsWithAtLeast(min_num_obs))

\* a flux method selected one epoch and left out another that has 4
\* observations, one of them outside the valid wavelength range
C5_Witness ==
    /\ FluxCallSelected
    /\ last.epochs # <<>>
    /\ \E jd \in TableJDs :
          /\ Cardinality(RowsAt(jd)) >= min_num_obs
          /\ Cardinality(ValidRowsAt(jd)) < min_num_obs
          /\ jd \notin Range(last.epochs)

----------------------------------------------------------------------------
\* the epochs at which the table holds an observation in the named filter
HasFilterAt(jd, name) == \E i \in RowsAt(jd) : FilterOfRow(i).name = name

EpochsWithBoth(filter1, filter2) ==
    {jd \in TableJDs : HasFilterAt(jd, filter1) /\ HasFilterAt(jd, filter2)}

\* the last call was lbol_bc_bh09 and got as far as get_bc_epochs
BcCallSelected ==
    last.method = "lbol_bc_bh09" /\ last.error # "NoSuchNodeError"

BcEpochsAmended(filter1, filter2) ==
    IF filter1 = filter2 THEN {} ELSE EpochsWithBoth(filter1, filter2)

----------------------------------------------------------------------------
\* the last call returned a light curve
Returned == last.method # "none" /\ last.error = "none"

\* every epoch of the table has exactly U, B, V, R and I, and the explosion
\* epoch is the first epoch
ScenarioTable ==
    /\ sn_node
    /\ TableJDs # {}
    /\ \A jd \in TableJDs :
          /\ Cardinality(RowsAt(jd)) = 5
          /\ {FilterOfRow(i).name : i \in RowsAt(jd)}
                = {"U", "B", "V", "R", "I"}
    /\ parameter_table.explosion_JD = Min(TableJDs)

(* C7: the light curve a top-level method returns is in strictly ascending *)
(* order of epoch, every point has phase = epoch - explosion epoch and the *)
(* explosion epoch's uncertainty as phase uncertainty; and for a table in  *)
(* which every epoch has U, B, V, R, I and the explosion epoch is the      *)
(* first epoch, lqbol on a fresh instance returns, and whenever it returns *)
(* it returns one point per epoch, the first at phase 0, the phases        *)
(* strictly increasing.                                                    *)
C7_LightCurveOrder ==
    /\ Returned =>
          /\ StrictlyAscending(Column(last.lc, "jd"))
          /\ \A k \in DOMAIN last.lc :
                /\ last.lc[k].phase
                     = last.lc[k].jd - parameter_table.explosion_JD
                /\ last.lc[k].phase_err = parameter_table.explosion_JD_err
    /\ (/\ last.method = "lqbol"
        /\ ScenarioTable
        /\ ~last.cached \/ last.error = "none") =>
          /\ last.error = "none"
          /\ Len(last.lc) = Cardinality(TableJDs)
          /\ Range(Column(last.lc, "jd")) = TableJDs
          /\ last.lc[1].phase = 0
          /\ StrictlyAscending(Column(last.lc, "phase"))

\* lqbol returned ScenarioEpochs points for a table of ScenarioEpochs epochs
\* of UBVRI whose rows are listed latest epoch first
C7_Witness ==
    /\ last.method = "lqbol"
    /\ ScenarioTable
    /\ Cardinality(TableJDs) = ScenarioEpochs
    /\ Len(last.lc) = ScenarioEpochs
    /\ phot_table[1].jd > phot_table[Len(phot_table)].jd

----------------------------------------------------------------------------
\* the epochs with at least min_num_obs valid flux points, one of them
\* blueward of 10000 Angstrom
QbolEpochs ==
    {jd \in EpochsWithAtLeast(min_num_obs) :
        \E i \in ValidRowsAt(jd) : FilterOfRow(i).eff_wl < IrOnlyLimit}

(* C9: the light curve lqbol returns has exactly one point for every epoch *)
(* that passes the minimum-observation-count selection and has a flux      *)
(* point below 10000 Angstrom, and no point for any other epoch.           *)
C9_QbolPoints ==
    (last.method = "lqbol" /\ last.error = "none") =>
        ListsAscending(Column(last.lc, "jd"), QbolEpochs)

\* lqbol returned a point for one selected epoch and none for another
\* selected epoch, whose flux points are all at 10000 Angstrom or longer
C9_Witness ==
    /\ last.method = "lqbol"
    /\ last.error = "none"
    /\ last.lc # <<>>
    /\ \E jd \in Range(last.epochs) :
          /\ jd \notin Range(Column(last.lc, "jd"))
          /\ \A i \in ValidRowsAt(jd) : FilterOfRow(i).eff_wl >= IrOnlyLimit

----------------------------------------------------------------------------
\* the flux points lbol_direct_bh09 works on at an epoch: dereddened, and
\* without the z band
DirectPoints(jd) ==
    EpochObs(deredden_fluxes(FreshConvertedObs, parameter_table), jd, {"z"})

\* the flux point of the shortest wavelength, and the U point, of an epoch
BluestPoint(jd) ==
    CHOOSE r \in Range(DirectPoints(jd)) :
        \A q \in Range(DirectPoints(jd)) : r.wavelength <= q.wavelength

UPoint(jd) == CHOOSE r \in Range(DirectPoints(jd)) : r.name = "U"

\* the decision table of the UV correction
DecisionTable(jd, temperature) ==
    IF BluestPoint(jd).name # "U" THEN "blackbody"
    ELSE IF UPoint(jd).flux
              < bb_flux_nounits(UPoint(jd).wavelength, temperature)
    THEN "linear"
    ELSE "blackbody"

(* C1: for every epoch lbol_direct_bh09 processes, the UV correction       *)
(* follows the decision table: the blackbody integral if the shortest band *)
(* is not U, the linear extrapolation if it is U and the U flux is below   *)
(* the fitted blackbody's flux at the U wavelength, the blackbody integral *)
(* if it is U and the U flux is not below.                                 *)
C1_DecisionTable ==
    last.method = "lbol_direct_bh09" =>
        \A k \in DOMAIN epoch_log :
            epoch_log[k].method
                = DecisionTable(epoch_log[k].jd, epoch_log[k].temperature)

(* C2: lbol_bc_bh09(filter1, filter2) with a filter pair outside B-V, V-I, *)
(* B-I fails with the unsupported-colour error and returns no light curve, *)
(* whatever the photometry holds.                                          *)
C2_UnsupportedRejected ==
    (/\ last.method = "lbol_bc_bh09"
     /\ sn_node
     /\ ColorType(last.filter1, last.filter2) \notin SupportedColors) =>
        last.error = "UnsupportedColor" /\ last.lc = <<>>

(* C3: after any sequence of top-level calls, no data-file handle opened   *)
(* by a finished call is still open.                                       *)
C3_SourceClosed == open_files = 0

(* C4: when the blackbody fit of one epoch does not converge,              *)
(* lbol_direct_bh09 skips that epoch only: it returns a light curve with   *)
(* a point for every other selected epoch and none for the failed one.     *)
C4_FailedEpochSkipped ==
    (last.method = "lbol_direct_bh09" /\ last.fits.fails_at > 0) =>
        /\ last.error = "none"
        /\ ListsAscending(Column(last.lc, "jd"),
                          Range(last.epochs)
                              \ {last.epochs[last.fits.fails_at]})

\* how the last call would have ended on a fresh instance
OnFreshInstance ==
    IF last.method = "lqbol"
    THEN lqbol(build, sn_node, phot_table, parameter_table, None)
    ELSE lbol_direct_bh09(build, sn_node, phot_table, parameter_table, None,
                          last.fits)

(* C8: lqbol and lbol_direct_bh09 load the photometry at most once per     *)
(* instance, the cached photometry is what get_photometry returned, and a  *)
(* call that finds the photometry cached ends as it would on a fresh       *)
(* instance, with the same light curve.                                    *)
C8_CachedCallSame ==
    /\ loads <= 1
    /\ photometry # None => photometry = Some(get_photometry(phot_table))
    /\ (last.method \in {"lqbol", "lbol_direct_bh09"} /\ last.cached) =>
          /\ last.error = OnFreshInstance.error
          /\ last.lc = OnFreshInstance.lc

(* C10: where lbol_direct_bh09 chooses the UV correction, names,           *)
(* wavelengths, fluxes and flux_errs are aligned: entry i of each belongs  *)
(* to one flux point of the epoch; the U flux and U wavelength compared    *)
(* with the blackbody are those of the U point; the flux and uncertainty   *)
(* handed to the linear extrapolation are those of the point of shortest   *)
(* wavelength.                                                             *)
C10_Aligned ==
    last.method = "lbol_direct_bh09" =>
        \A k \in DOMAIN epoch_log :
            LET e == epoch_log[k]
                pts == DirectPoints(e.jd)
            IN  /\ \A i \in DOMAIN e.names :
                      \E j \in DOMAIN pts :
                          /\ pts[j].name = e.names[i]
                          /\ pts[j].wavelength = e.wavelengths[i]
                          /\ pts[j].flux = e.fluxes[i]
                          /\ pts[j].uncertainty = e.flux_errs[i]
                /\ e.has_U =>
                      /\ e.U_flux = UPoint(e.jd).flux
                      /\ e.U_wl = UPoint(e.jd).wavelength
                /\ e.method = "linear" =>
                      /\ e.shortest_flux = BluestPoint(e.jd).flux
                      /\ e.shortest_flux_err = BluestPoint(e.jd).uncertainty

----------------------------------------------------------------------------
\* the number of flux points get_lbol_epochs counts at an epoch
CountedPoints(jd) ==
    num_obs_from(deredden_fluxes(FreshConvertedObs, parameter_table), jd, 1)

(* C11: for every epoch lbol_direct_bh09 processes, the wavelengths, fluxes *)
(* and flux_errs handed to fqbol_trapezoidal and bb_fit_parameters hold at  *)
(* least min_num_obs points, as many as get_lbol_epochs counted for the     *)
(* epoch (also when the epoch has a z band observation).                    *)
C11_PointsUsed ==
    last.method = "lbol_direct_bh09" =>
        \A k \in DOMAIN epoch_log :
            LET e == epoch_log[k]
            IN  /\ Len(e.fluxes) >= min_num_obs
                /\ Len(e.fluxes) = CountedPoints(e.jd)
                /\ Len(e.wavelengths) = Len(e.fluxes)
                /\ Len(e.flux_errs) = Len(e.fluxes)

(* C12: for each supported pair (B-V, V-I, B-I), every epoch lbol_bc_bh09   *)
(* hands to calc_Lbol comes with exactly one V magnitude and one V          *)
(* uncertainty, a colour that is not None and a colour uncertainty that is  *)
(* not None: no epoch get_bc_epochs selects is processed without its V      *)
(* observation.                                                             *)
C12_ReferenceBand ==
    (/\ last.method = "lbol_bc_bh09"
     /\ ColorType(last.filter1, last.filter2) \in SupportedColors) =>
        \A k \in DOMAIN epoch_log :
            LET e == epoch_log[k]
            IN  /\ Len(e.v_mag) = 1
                /\ Len(e.v_mag_err) = 1
                /\ e.color # None
                /\ e.color_err # None

====
